---- MODULE Spec2Model ----
(***************************************************************************)
(* Model of the location service of src/main.go: ValidatePinCodeWithCity,  *)
(* GetNearbyLandmarks and the two HTTP handlers that drive them.           *)
(*                                                                         *)
(* A Go string is a sequence of one-character strings, so that TrimSpace,  *)
(* ToLower and Contains are computed, not assumed.  The collaborator (the  *)
(* maps client) is the environment: each of its calls is issued by one     *)
(* action and answered by the next, with an answer chosen from a bounded   *)
(* set or with an error.                                                   *)
(*                                                                         *)
(* Numbers: coordinates are integers in units of one metre of arc on one   *)
(* meridian, where the haversine distance is the absolute difference of    *)
(* the latitudes.  A popularity score is the exact rational num/den of the *)
(* formula of lines 284-286; review counts are of the form 10^k - 1, where *)
(* log10(reviews + 1) is the integer k.  A radius is held in tenths of a   *)
(* metre.  Floating-point rounding is not modelled.                        *)
(*                                                                         *)
(* Spec serves one request and SpecRank ranks longer lists of places; in   *)
(* SpecConc several requests are in flight at once, and every variable but *)
(* mapsClient is then a function of the request or of its frame of locals. *)
(***************************************************************************)
EXTENDS Integers, Sequences, FiniteSets, TLC

VARIABLES
  mapsClient,       \* LocationService.mapsClient, the collaborator handle
  op,               \* the handler that took the request: "validate", "landmarks"
  req,              \* the decoded request body
  pc,               \* where the request is: idle, waiting for a call, done
  calls,            \* the collaborator calls made so far, with their outcome
  results,          \* ValidatePinCodeWithCity: results of its Geocode call,
                    \* gone when the function returns into GetNearbyLandmarks
  validation,       \* the *ValidationResponse ValidatePinCodeWithCity returned
  geocodeResults,   \* GetNearbyLandmarks: results of its own Geocode call
  location,         \* GetNearbyLandmarks: the resolved coordinate
  locationAddress,  \* GetNearbyLandmarks: the resolved address
  nearbyResults,    \* GetNearbyLandmarks: results of the nearby search
  scoredLandmarks,  \* GetNearbyLandmarks: the scored survivors, sorted
  response,         \* the *LandmarksResponse GetNearbyLandmarks returned
  err               \* the error the operation returned, "" for nil

vars == <<mapsClient, op, req, pc, calls, results, validation, geocodeResults, location,
          locationAddress, nearbyResults, scoredLandmarks, response, err>>

(***************************************************************************)
(* Bounds of the model.                                                    *)
(***************************************************************************)
\* longest list of geocoding results the collaborator answers with
MaxResults == 2
\* longest list of places the nearby search answers with, request pipeline
MaxNearbySmall == 2
\* longest list of places the nearby search answers with, ranking runs
MaxNearby == 6

(***************************************************************************)
(* Strings.                                                                *)
(***************************************************************************)
Uppers == <<"A", "D", "G", "H", "I", "K", "L", "N", "P", "R", "U">>
Lowers == <<"a", "d", "g", "h", "i", "k", "l", "n", "p", "r", "u">>

IsSpace(c) == c \in {" ", "\t"}

ToLowerChar(c) ==
  IF \E i \in DOMAIN Uppers : Uppers[i] = c
  THEN Lowers[CHOOSE i \in DOMAIN Uppers : Uppers[i] = c]
  ELSE c

ToUpperChar(c) ==
  IF \E i \in DOMAIN Lowers : Lowers[i] = c
  THEN Uppers[CHOOSE i \in DOMAIN Lowers : Lowers[i] = c]
  ELSE c

\* strings.ToLower
ToLower(s) == [i \in 1..Len(s) |-> ToLowerChar(s[i])]

RECURSIVE TrimLeft(_)
TrimLeft(s) ==
  IF s # <<>> /\ IsSpace(Head(s)) THEN TrimLeft(Tail(s)) ELSE s

RECURSIVE TrimRight(_)
TrimRight(s) ==
  IF s # <<>> /\ IsSpace(s[Len(s)]) THEN TrimRight(SubSeq(s, 1, Len(s) - 1)) ELSE s

\* strings.TrimSpace
TrimSpace(s) == TrimRight(TrimLeft(s))

\* strings.Contains: substr occurs in s at some offset (always, when empty)
Contains(s, substr) ==
  \E i \in 0..(Len(s) - Len(substr)) : SubSeq(s, i + 1, i + Len(substr)) = substr

(***************************************************************************)
(* Option values: <<>> is nil, <<x>> is a pointer to x.                    *)
(***************************************************************************)
Nil == <<>>
Ptr(x) == <<x>>

\* a message: the format string's identity, its string arguments, its %d
Msg(id, args, n) == [id |-> id, args |-> args, n |-> n]

(***************************************************************************)
(* The data the collaborator answers with.                                 *)
(***************************************************************************)
Kanpur == <<"K", "a", "n", "p", "u", "r">>
KanpurNagar == Kanpur \o <<" ", "N", "a", "g", "a", "r">>
Delhi == <<"D", "e", "l", "h", "i">>
UttarPradesh == <<"U", "P">>
Haryana == <<"H", "R">>
India == <<"I", "N">>
Nepal == <<"N", "P">>

Component(name, types) == [LongName |-> name, Types |-> types]
LatLng(lat, lng) == [Lat |-> lat, Lng |-> lng]

Loc1 == LatLng(5000, 77)
Loc2 == LatLng(6000, 77)
\* the zero value of Location and of maps.LatLng
ZeroLocation == LatLng(0, 0)

GeocodingResult(fa, comps, loc) ==
  [FormattedAddress |-> fa, AddressComponents |-> comps, Location |-> loc]

GeoKanpur ==
  GeocodingResult(<<"f", "1">>,
    << Component(Kanpur, <<"locality", "political">>),
       Component(UttarPradesh, <<"administrative_area_level_1">>),
       Component(India, <<"country">>) >>, Loc1)

GeoKanpurNagar ==
  GeocodingResult(<<"f", "2">>,
    << Component(<<"2", "0", "8">>, <<"postal_code">>),
       Component(KanpurNagar, <<"administrative_area_level_2", "political">>),
       Component(UttarPradesh, <<"administrative_area_level_1">>) >>, Loc2)

GeoNoCity ==
  GeocodingResult(<<"f", "3">>,
    << Component(India, <<"country", "political">>) >>, Loc2)

GeoDelhi ==
  GeocodingResult(<<"f", "4">>,
    << Component(Delhi, <<"locality">>),
       Component(Haryana, <<"administrative_area_level_1">>),
       Component(India, <<"country">>) >>, Loc1)

\* several components of one type in one result
GeoMixed ==
  GeocodingResult(<<"f", "5">>,
    << Component(Delhi, <<"administrative_area_level_2">>),
       Component(Kanpur, <<"locality">>),
       Component(Haryana, <<"administrative_area_level_1">>),
       Component(UttarPradesh, <<"administrative_area_level_1">>),
       Component(India, <<"country">>),
       Component(Nepal, <<"country">>) >>, Loc2)

GeoResults == {GeoKanpur, GeoKanpurNagar, GeoNoCity, GeoDelhi, GeoMixed}

SeqsUpTo(S, n) == UNION {[1..k -> S] : k \in 0..n}

\* what Geocode answers to a postal code
GeocodeAnswers == SeqsUpTo(GeoResults, MaxResults)

\* what Geocode answers to an address or to "postal code, city": only the
\* coordinate and the formatted address of a result are read
LocationResults == {GeoDelhi, GeoKanpurNagar}
LocationAnswers == SeqsUpTo(LocationResults, MaxResults)

Place(name, rating, reviews, lat) ==
  [Name |-> name, Rating |-> rating, UserRatingsTotal |-> reviews,
   Location |-> LatLng(lat, 77)]

\* 1000 m from Loc1, score 4*2/2; at Loc2 itself
PlaceFort == Place("fort", 4, 99, 6000)
\* 10 m from Loc1, score 2*2/1.01
PlaceCafe == Place("cafe", 2, 99, 5010)
\* 10 m from Loc1 on the other side, score 4*1/1.01: ties with the cafe
PlaceMall == Place("mall", 4, 9, 4990)
\* no reviews
PlaceNew == Place("new", 5, 0, 5500)
\* 9 m from Loc1: the query point itself
PlaceHere == Place("here", 5, 999, 5009)

Places == {PlaceFort, PlaceCafe, PlaceMall, PlaceNew, PlaceHere}

\* what NearbySearch answers: every list of at most MaxNearbySmall places
NearbyAnswers == SeqsUpTo(Places, MaxNearbySmall)

\* longer answers for the ranking runs.  The outcomes of an unstable sort do
\* not depend on the order of its input, so one order stands for every
\* list of the same places: fort, cafe, mall, new, here.
PlaceOrder == <<PlaceFort, PlaceCafe, PlaceMall, PlaceNew, PlaceHere>>
PlaceRank(p) == CHOOSE k \in DOMAIN PlaceOrder : PlaceOrder[k] = p
LongNearbyAnswers ==
  {s \in SeqsUpTo(Places, MaxNearby) :
     \A k \in 1..(Len(s) - 1) : PlaceRank(s[k]) <= PlaceRank(s[k + 1])}

(***************************************************************************)
(* The requests the handlers decode.                                       *)
(***************************************************************************)
Request(pinCode, city, address, radius) ==
  [PinCode |-> pinCode, City |-> city, Address |-> address, Radius |-> radius]

ZeroRequest == Request(<<>>, <<>>, <<>>, 0)

PinCodes == { <<>>, <<" ">>, <<" ", "2", "0", "8">> }

Cities ==
  { <<>>, <<"\t", " ">>,
    <<"K", "A", "N", "P", "U", "R", " ">>,
    <<"k", "a", "n", "p", "u", "r", " ", "n", "a", "g", "a", "r">>,
    <<" ", "D", "e", "l", "h", "i">>,
    <<"p", "u", "r">> }

\* the cities a landmarks request names
LandmarkCities == { <<>>, <<"\t", " ">>, <<"K", "A", "N", "P", "U", "R", " ">>,
                    <<" ", "D", "e", "l", "h", "i">> }

Addresses == { <<>>, <<" ">>, <<" ", "1", "2", " ", "M", "G">> }

\* radii in tenths of a metre: unspecified, 0.5 m, 500 m
Radii == {0, 5, 5000}

(***************************************************************************)
(* Collaborator calls.                                                     *)
(***************************************************************************)
GeocodeCall(address, postalCode) ==
  [api |-> "Geocode", Address |-> address, PostalCode |-> postalCode,
   Location |-> ZeroLocation, Radius |-> 0, outcome |-> "pending"]

NearbySearchCall(loc, radius) ==
  [api |-> "NearbySearch", Address |-> <<>>, PostalCode |-> <<>>,
   Location |-> loc, Radius |-> radius, outcome |-> "pending"]

\* the pending call returned
Returned(cs, outcome) == [cs EXCEPT ![Len(cs)].outcome = outcome]

(***************************************************************************)
(* ValidatePinCodeWithCity.                                                *)
(***************************************************************************)
ValidationResponse(valid, message, suggestions, details) ==
  [Valid |-> valid, Message |-> message, Suggestions |-> suggestions,
   Details |-> details]

Details(pinCode, found) ==
  [PinCode |-> pinCode, City |-> found.city, State |-> found.state,
   Country |-> found.country, FormattedAddress |-> found.formattedAddress]

\* var foundCity, foundState, foundCountry string; var formattedAddress string
NothingFound ==
  [city |-> <<>>, state |-> <<>>, country |-> <<>>, formattedAddress |-> <<>>]

\* the inputs as cleaned at the top of the function
CleanPinCode(pinCode) == TrimSpace(pinCode)
\* the city trimmed but left in its letter case
CleanCityKeepCase(city) == TrimSpace(city)
CleanCity(city) == ToLower(TrimSpace(city))

RequiredResponse ==
  ValidationResponse(FALSE, Msg("PIN code and city are required", <<>>, 0),
                     <<>>, Nil)

NoLocationResponse ==
  ValidationResponse(FALSE, Msg("Invalid PIN code: No location found", <<>>, 0),
                     <<>>, Nil)

\* the switch on one type tag of one component
ScanType(found, typ, longName) ==
  IF typ \in {"locality", "administrative_area_level_2"}
  THEN IF found.city = <<>>
       THEN [found EXCEPT !.city = ToLower(longName)]
       ELSE found
  ELSE IF typ = "administrative_area_level_1"
  THEN [found EXCEPT !.state = longName]
  ELSE IF typ = "country"
  THEN [found EXCEPT !.country = longName]
  ELSE found

RECURSIVE ScanTypes(_, _, _)
ScanTypes(found, types, longName) ==
  IF types = <<>> THEN found
  ELSE ScanTypes(ScanType(found, Head(types), longName), Tail(types), longName)

RECURSIVE ScanComponents(_, _)
ScanComponents(found, components) ==
  IF components = <<>> THEN found
  ELSE ScanComponents(
         ScanTypes(found, Head(components).Types, Head(components).LongName),
         Tail(components))

\* the body of the loop over the results, up to the match test
ScanResult(found, result) ==
  ScanComponents([found EXCEPT !.formattedAddress = result.FormattedAddress],
                 result.AddressComponents)

\* the match test of line 141
CityMatches(foundCity, city) ==
  Contains(foundCity, city) \/ Contains(city, foundCity)

MatchResponse(pinCode, found) ==
  ValidationResponse(TRUE, Msg("PIN code and city match successfully", <<>>, 0),
                     <<>>, Ptr(Details(pinCode, found)))

MismatchResponse(pinCode, city, found) ==
  ValidationResponse(FALSE,
    Msg("PIN code %s does not belong to %s", <<pinCode, city>>, 0),
    IF found.city # <<>> THEN <<found.city>> ELSE <<>>,
    Ptr(Details(pinCode, found)))

\* the loop over the results and what follows it; found outlives a result
RECURSIVE ScanResults(_, _, _, _)
ScanResults(found, rs, pinCode, city) ==
  IF rs = <<>> THEN MismatchResponse(pinCode, city, found)
  ELSE LET f == ScanResult(found, Head(rs))
       IN IF CityMatches(f.city, city)
          THEN MatchResponse(pinCode, f)
          ELSE ScanResults(f, Tail(rs), pinCode, city)

\* ValidatePinCodeWithCity from the return of Geocode: pinCode, city cleaned
ValidateResults(pinCode, city, rs) ==
  IF Len(rs) = 0 THEN NoLocationResponse
  ELSE ScanResults(NothingFound, rs, pinCode, city)

(***************************************************************************)
(* GetNearbyLandmarks: scoring, sorting and selection.                     *)
(***************************************************************************)
\* radius = 1000, in metres
DefaultRadius == 1000
\* distance < 10, in metres
MinDistance == 10
\* maxLandmarks := 5
maxLandmarks == 5
\* the divisor of the distance penalty, distance / 1000.0
PenaltyScale == 1000

\* a radius of m metres, in tenths of a metre
Metres(m) == m * 10
\* uint(radius) of a radius in tenths of a metre that is not negative
Uint(radius) == radius \div 10

\* the caller's radius converted without the default
SearchRadiusNoDefault(radius) == Uint(radius)

\* the radius the nearby search is asked for
SearchRadius(radius) ==
  Uint(IF radius = 0 THEN Metres(DefaultRadius) ELSE radius)

\* haversine distance of two points of one meridian, in metres
calculateDistance(lat1, lon1, lat2, lon2) ==
  IF lat2 >= lat1 THEN lat2 - lat1 ELSE lat1 - lat2

\* math.Log10 where it is an integer
Log10(n) == CHOOSE k \in 0..6 : 10 ^ k = n

\* popScore := reviewScore / distancePenalty, as the fraction num/den
PopScore(rating, userRatingsTotal, distance) ==
  [num |-> rating * Log10(userRatingsTotal + 1) * PenaltyScale,
   den |-> PenaltyScale + distance]

\* a.score > b.score
Greater(a, b) == a.num * b.den > b.num * a.den

Distance(loc, place) ==
  calculateDistance(loc.Lat, loc.Lng, place.Location.Lat, place.Location.Lng)

\* a test that also skips a place exactly MinDistance away
SkippedAtMinDistance(loc, place) ==
  Distance(loc, place) <= MinDistance \/ place.UserRatingsTotal = 0

\* the test that skips a place
Skipped(loc, place) ==
  Distance(loc, place) < MinDistance \/ place.UserRatingsTotal = 0

Landmark(loc, place) ==
  [Name |-> place.Name, Distance |-> Distance(loc, place),
   Rating |-> place.Rating, UserRatings |-> place.UserRatingsTotal,
   PopScore |-> PopScore(place.Rating, place.UserRatingsTotal,
                         Distance(loc, place)),
   Location |-> place.Location]

ScoredLandmark(loc, place) ==
  [landmark |-> Landmark(loc, place), score |-> Landmark(loc, place).PopScore]

\* the loop over nearbyResults.Results
RECURSIVE ScoreAll(_, _)
ScoreAll(loc, places) ==
  IF places = <<>> THEN <<>>
  ELSE IF Skipped(loc, Head(places))
       THEN ScoreAll(loc, Tail(places))
       ELSE <<ScoredLandmark(loc, Head(places))>> \o ScoreAll(loc, Tail(places))

RemoveAt(s, i) == SubSeq(s, 1, i - 1) \o SubSeq(s, i + 1, Len(s))

\* an ascending less function
LessAscending(a, b) == Greater(b.score, a.score)

\* the less function handed to sort.Slice
Less(a, b) == Greater(a.score, b.score)

\* sort.Slice is not stable: every arrangement of s in which no element
\* comes before one that is less than it
RECURSIVE SortSlice(_)
SortSlice(s) ==
  IF s = <<>> THEN {<<>>}
  ELSE UNION { { <<s[i]>> \o t : t \in SortSlice(RemoveAt(s, i)) } :
               i \in {i \in DOMAIN s : \A j \in DOMAIN s : ~Less(s[j], s[i])} }

\* the first maxLandmarks landmarks of the sorted slice, or all of them
SelectTop(scored) ==
  LET n == IF Len(scored) < maxLandmarks THEN Len(scored) ELSE maxLandmarks
  IN [i \in 1..n |-> scored[i].landmark]

LandmarksResponse(success, message, landmarks, loc) ==
  [Success |-> success, Message |-> message, Landmarks |-> landmarks,
   Location |-> loc]

SoftFailure(message) == LandmarksResponse(FALSE, message, <<>>, ZeroLocation)

\* the count reported even when there is nothing to report
FoundMessageAlways(landmarks, address) ==
  Msg("Found %d landmarks near %s", <<address>>, Len(landmarks))

FoundMessage(landmarks, address) ==
  IF Len(landmarks) = 0
  THEN Msg("No landmarks found in the specified area. Try increasing the search radius.",
           <<>>, 0)
  ELSE Msg("Found %d landmarks near %s", <<address>>, Len(landmarks))

\* fmt.Sprintf("%s, %s", pinCode, city)
PinAndCity(pinCode, city) == pinCode \o <<",", " ">> \o city

(***************************************************************************)
(* Decisions of the two operations.                                        *)
(***************************************************************************)
\* the inputs required only together
MissingBoth(pinCode, city) == pinCode = <<>> /\ city = <<>>

\* if pinCode == "" || city == "", on the cleaned inputs
MissingInput(pinCode, city) == pinCode = <<>> \/ city = <<>>

\* the postal code and city taking precedence over the address
InputModePinCodeFirst(pinCode, city, address) ==
  IF pinCode # <<>> /\ city # <<>> THEN "pincode"
  ELSE IF address # <<>> THEN "address"
  ELSE "none"

\* the input method GetNearbyLandmarks uses, decided on the raw inputs
InputMode(pinCode, city, address) ==
  IF address # <<>> THEN "address"
  ELSE IF pinCode # <<>> /\ city # <<>> THEN "pincode"
  ELSE "none"

\* the validator's verdict ignored
ValidationNeverFailed(v) == FALSE

\* if !validation.Valid
ValidationFailed(v) == ~v.Valid

\* a failed call turned into a response with success=false
FailureAsSoftFailure(e) ==
  [response |-> Ptr(SoftFailure(Msg(e, <<>>, 0))), err |-> ""]

\* what an operation returns when a collaborator call failed: return nil, err
Failure(e) == [response |-> Nil, err |-> e]

(***************************************************************************)
(* The state machine of one request.                                       *)
(***************************************************************************)
\* the client NewLocationService stores in the service, once
TheClient == "maps.Client"

Init ==
  /\ mapsClient = TheClient
  /\ op = "none"
  /\ req = ZeroRequest
  /\ pc = "idle"
  /\ calls = <<>>
  /\ results = <<>>
  /\ validation = Nil
  /\ geocodeResults = <<>>
  /\ location = ZeroLocation
  /\ locationAddress = <<>>
  /\ nearbyResults = <<>>
  /\ scoredLandmarks = <<>>
  /\ response = Nil
  /\ err = ""

\* ValidatePinCodeWithCity up to its Geocode call, for the operation o
BeginValidate(o, pinCode, city) ==
  IF MissingInput(CleanPinCode(pinCode), CleanCity(city))
  THEN /\ validation' = Ptr(RequiredResponse)
       /\ calls' = calls
       /\ pc' = "done"
       /\ response' = IF o = "landmarks"
                      THEN Ptr(SoftFailure(RequiredResponse.Message))
                      ELSE Nil
  ELSE /\ validation' = Nil
       /\ calls' = Append(calls, GeocodeCall(CleanPinCode(pinCode),
                                             CleanPinCode(pinCode)))
       /\ pc' = "validateGeocode"
       /\ response' = Nil

\* handleValidatePinCode: the body decoded, ValidatePinCodeWithCity entered
HandleValidatePinCode ==
  \E pinCode \in PinCodes, city \in Cities :
    /\ pc = "idle"
    /\ op' = "validate"
    /\ req' = Request(pinCode, city, <<>>, 0)
    /\ BeginValidate("validate", pinCode, city)
    /\ UNCHANGED <<mapsClient, results, geocodeResults, location,
                   locationAddress, nearbyResults, scoredLandmarks, err>>

\* handleGetLandmarks: the body decoded, GetNearbyLandmarks entered
HandleGetLandmarks ==
  \E pinCode \in PinCodes, city \in LandmarkCities, address \in Addresses,
     radius \in Radii :
    /\ pc = "idle"
    /\ op' = "landmarks"
    /\ req' = Request(pinCode, city, address, radius)
    /\ CASE InputMode(pinCode, city, address) = "address" ->
              /\ locationAddress' = TrimSpace(address)
              /\ calls' = Append(calls, GeocodeCall(TrimSpace(address), <<>>))
              /\ pc' = "addressGeocode"
              /\ UNCHANGED <<validation, response>>
         [] InputMode(pinCode, city, address) = "pincode" ->
              /\ BeginValidate("landmarks", pinCode, city)
              /\ UNCHANGED locationAddress
         [] OTHER ->
              /\ response' = Ptr(SoftFailure(Msg(
                   "Please provide either an address OR both pin code and city",
                   <<>>, 0)))
              /\ pc' = "done"
              /\ UNCHANGED <<validation, calls, locationAddress>>
    /\ UNCHANGED <<mapsClient, results, geocodeResults, location,
                   nearbyResults, scoredLandmarks, err>>

\* the Geocode call of ValidatePinCodeWithCity returns; the validator
\* finishes and, in GetNearbyLandmarks, the operation goes on
ValidateGeocodeReturn ==
  /\ pc = "validateGeocode"
  /\ \/ /\ calls' = Returned(calls, "error")
        /\ validation' = Nil
        /\ response' = Failure("geocoding failed").response
        /\ err' = Failure("geocoding failed").err
        /\ pc' = "done"
        /\ UNCHANGED results
     \/ \E rs \in GeocodeAnswers :
          LET v == ValidateResults(CleanPinCode(req.PinCode),
                                   CleanCity(req.City), rs)
          IN /\ results' = IF op = "validate" THEN rs ELSE <<>>
             /\ validation' = Ptr(v)
             /\ err' = ""
             /\ IF op = "validate"
                THEN /\ calls' = Returned(calls, "ok")
                     /\ response' = Nil
                     /\ pc' = "done"
                ELSE IF ValidationFailed(v)
                THEN /\ calls' = Returned(calls, "ok")
                     /\ response' = Ptr(SoftFailure(v.Message))
                     /\ pc' = "done"
                ELSE /\ calls' = Append(Returned(calls, "ok"),
                          GeocodeCall(PinAndCity(req.PinCode, req.City), <<>>))
                     /\ response' = Nil
                     /\ pc' = "locationGeocode"
  /\ UNCHANGED <<mapsClient, op, req, geocodeResults, location,
                 locationAddress, nearbyResults, scoredLandmarks>>

\* the Geocode call of GetNearbyLandmarks returns, in either input mode
LocationGeocodeReturn ==
  /\ pc \in {"addressGeocode", "locationGeocode"}
  /\ \/ LET e == IF pc = "addressGeocode" THEN "geocoding address failed"
                 ELSE "geocoding failed"
        IN /\ calls' = Returned(calls, "error")
           /\ response' = Failure(e).response
           /\ err' = Failure(e).err
           /\ pc' = "done"
           /\ UNCHANGED <<geocodeResults, location, locationAddress>>
     \/ \E rs \in LocationAnswers :
          /\ geocodeResults' = rs
          /\ err' = ""
          /\ IF Len(rs) = 0
             THEN /\ calls' = Returned(calls, "ok")
                  /\ response' = Ptr(SoftFailure(Msg(
                       IF pc = "addressGeocode"
                       THEN "Could not find the specified address"
                       ELSE "Could not find location coordinates", <<>>, 0)))
                  /\ pc' = "done"
                  /\ UNCHANGED <<location, locationAddress>>
             ELSE /\ location' = rs[1].Location
                  /\ locationAddress' = rs[1].FormattedAddress
                  /\ calls' = Append(Returned(calls, "ok"),
                       NearbySearchCall(rs[1].Location, SearchRadius(req.Radius)))
                  /\ response' = Nil
                  /\ pc' = "nearbySearch"
  /\ UNCHANGED <<mapsClient, op, req, results, validation, nearbyResults,
                 scoredLandmarks>>

\* the NearbySearch call returns, with one of answers unless it fails; the
\* rest of GetNearbyLandmarks
NearbySearchReturn(answers) ==
  /\ pc = "nearbySearch"
  /\ \/ /\ calls' = Returned(calls, "error")
        /\ response' = Failure("nearby search failed").response
        /\ err' = Failure("nearby search failed").err
        /\ UNCHANGED <<nearbyResults, scoredLandmarks>>
     \/ \E places \in answers :
          \E sorted \in SortSlice(ScoreAll(location, places)) :
            /\ calls' = Returned(calls, "ok")
            /\ nearbyResults' = places
            /\ scoredLandmarks' = sorted
            /\ response' = Ptr(LandmarksResponse(TRUE,
                 FoundMessage(SelectTop(sorted), locationAddress),
                 SelectTop(sorted), location))
            /\ err' = ""
  /\ pc' = "done"
  /\ UNCHANGED <<mapsClient, op, req, results, validation, geocodeResults,
                 location, locationAddress>>

Next ==
  \/ HandleValidatePinCode
  \/ HandleGetLandmarks
  \/ ValidateGeocodeReturn
  \/ LocationGeocodeReturn
  \/ NearbySearchReturn(NearbyAnswers)

Spec == Init /\ [][Next]_vars

(***************************************************************************)
(* Ranking runs: one request in address mode whose location is resolved    *)
(* and whose nearby search is in flight, answered with longer lists.       *)
(***************************************************************************)
RankAddress == <<" ", "1", "2", " ", "M", "G">>

InitRank ==
  /\ mapsClient = TheClient
  /\ op = "landmarks"
  /\ req = Request(<<>>, <<>>, RankAddress, 5000)
  /\ pc = "nearbySearch"
  /\ geocodeResults \in {<<GeoDelhi>>, <<GeoKanpurNagar>>}
  /\ location = geocodeResults[1].Location
  /\ locationAddress = geocodeResults[1].FormattedAddress
  /\ calls = << [GeocodeCall(TrimSpace(RankAddress), <<>>) EXCEPT !.outcome = "ok"],
                NearbySearchCall(location, SearchRadius(req.Radius)) >>
  /\ results = <<>>
  /\ validation = Nil
  /\ nearbyResults = <<>>
  /\ scoredLandmarks = <<>>
  /\ response = Nil
  /\ err = ""

NextRank == NearbySearchReturn(LongNearbyAnswers)

SpecRank == InitRank /\ [][NextRank]_vars

(***************************************************************************)
(* The same two operations as functions of the locals of one invocation,   *)
(* cut at the collaborator calls: what the code does from one call to the  *)
(* next with the answer it got.  A frame holds the locals; a step yields   *)
(* the next position, the frame and the call it issues, if any.            *)
(***************************************************************************)
\* the locals of an invocation as Go initialises them
NewFrame ==
  [results |-> <<>>, validation |-> Nil, geocodeResults |-> <<>>,
   location |-> ZeroLocation, locationAddress |-> <<>>, nearbyResults |-> <<>>,
   scoredLandmarks |-> <<>>, response |-> Nil, err |-> ""]

StepTo(at, frame, issued) == [pc |-> at, frame |-> frame, issued |-> issued]

\* an answer of the collaborator: a list, or an error
Answer(list) == [ok |-> TRUE, list |-> list]
Failed == [ok |-> FALSE, list |-> <<>>]

\* ValidatePinCodeWithCity up to its Geocode call
EnterValidate(o, q, f) ==
  IF MissingInput(CleanPinCode(q.PinCode), CleanCity(q.City))
  THEN StepTo("done",
         [f EXCEPT !.validation = Ptr(RequiredResponse),
                   !.response = IF o = "landmarks"
                                THEN Ptr(SoftFailure(RequiredResponse.Message))
                                ELSE Nil],
         <<>>)
  ELSE StepTo("validateGeocode", f,
         <<GeocodeCall(CleanPinCode(q.PinCode), CleanPinCode(q.PinCode))>>)

\* the operation o entered with the request q, up to its first call
Enter(o, q) ==
  IF o = "validate" THEN EnterValidate(o, q, NewFrame)
  ELSE IF InputMode(q.PinCode, q.City, q.Address) = "address"
  THEN StepTo("addressGeocode",
         [NewFrame EXCEPT !.locationAddress = TrimSpace(q.Address)],
         <<GeocodeCall(TrimSpace(q.Address), <<>>)>>)
  ELSE IF InputMode(q.PinCode, q.City, q.Address) = "pincode"
  THEN EnterValidate(o, q, NewFrame)
  ELSE StepTo("done",
         [NewFrame EXCEPT !.response = Ptr(SoftFailure(Msg(
            "Please provide either an address OR both pin code and city",
            <<>>, 0)))],
         <<>>)

\* from the return of the validator's Geocode call
OnValidateGeocode(o, q, f, a) ==
  IF ~a.ok
  THEN StepTo("done",
         [f EXCEPT !.validation = Nil,
                   !.response = Failure("geocoding failed").response,
                   !.err = Failure("geocoding failed").err],
         <<>>)
  ELSE LET v == ValidateResults(CleanPinCode(q.PinCode), CleanCity(q.City),
                                a.list)
           g == [f EXCEPT !.results = IF o = "validate" THEN a.list ELSE <<>>,
                          !.validation = Ptr(v), !.err = ""]
       IN IF o = "validate"
          THEN StepTo("done", [g EXCEPT !.response = Nil], <<>>)
          ELSE IF ValidationFailed(v)
          THEN StepTo("done",
                 [g EXCEPT !.response = Ptr(SoftFailure(v.Message))], <<>>)
          ELSE StepTo("locationGeocode", [g EXCEPT !.response = Nil],
                 <<GeocodeCall(PinAndCity(q.PinCode, q.City), <<>>)>>)

\* from the return of the Geocode call of GetNearbyLandmarks, waited for at
OnLocationGeocode(q, f, at, a) ==
  IF ~a.ok
  THEN LET e == IF at = "addressGeocode" THEN "geocoding address failed"
                ELSE "geocoding failed"
       IN StepTo("done",
            [f EXCEPT !.response = Failure(e).response, !.err = Failure(e).err],
            <<>>)
  ELSE IF Len(a.list) = 0
  THEN StepTo("done",
         [f EXCEPT !.geocodeResults = a.list, !.err = "",
                   !.response = Ptr(SoftFailure(Msg(
                      IF at = "addressGeocode"
                      THEN "Could not find the specified address"
                      ELSE "Could not find location coordinates", <<>>, 0)))],
         <<>>)
  ELSE StepTo("nearbySearch",
         [f EXCEPT !.geocodeResults = a.list, !.err = "",
                   !.location = a.list[1].Location,
                   !.locationAddress = a.list[1].FormattedAddress,
                   !.response = Nil],
         <<NearbySearchCall(a.list[1].Location, SearchRadius(q.Radius))>>)

\* from the return of NearbySearch, the scored survivors sorted as sorted
OnNearbySearch(f, a, sorted) ==
  IF ~a.ok
  THEN StepTo("done",
         [f EXCEPT !.response = Failure("nearby search failed").response,
                   !.err = Failure("nearby search failed").err],
         <<>>)
  ELSE StepTo("done",
         [f EXCEPT !.nearbyResults = a.list, !.scoredLandmarks = sorted,
                   !.err = "",
                   !.response = Ptr(LandmarksResponse(TRUE,
                      FoundMessage(SelectTop(sorted), f.locationAddress),
                      SelectTop(sorted), f.location))],
         <<>>)

\* the orders sort.Slice can leave the scored survivors of an answer in
SortedOutcomes(f, a) ==
  IF a.ok THEN SortSlice(ScoreAll(f.location, a.list)) ELSE {<<>>}

(***************************************************************************)
(* Concurrent requests: net/http serves every request on a goroutine of    *)
(* its own, and the goroutines share the one LocationService.  Here op,    *)
(* req, pc and calls are functions of the request and the locals are       *)
(* functions of the frame they live in.  calls[r] keeps the calls request  *)
(* r issued and the answers it got.                                        *)
(***************************************************************************)
\* the requests served at the same time
MaxRequests == 2

Requests == 1..MaxRequests

\* the locals kept in one place for every invocation, as fields of the
\* service would be
SharedFrame(r) == 1

\* where the locals of the invocation that serves request r live: they are
\* declared inside the functions, so every invocation has its own
Frame(r) == r

\* the frame of the invocation serving request r, as it is now
ReadFrame(k) ==
  [results |-> results[k], validation |-> validation[k],
   geocodeResults |-> geocodeResults[k], location |-> location[k],
   locationAddress |-> locationAddress[k], nearbyResults |-> nearbyResults[k],
   scoredLandmarks |-> scoredLandmarks[k], response |-> response[k],
   err |-> err[k]]

WriteFrame(k, f) ==
  /\ results' = [results EXCEPT ![k] = f.results]
  /\ validation' = [validation EXCEPT ![k] = f.validation]
  /\ geocodeResults' = [geocodeResults EXCEPT ![k] = f.geocodeResults]
  /\ location' = [location EXCEPT ![k] = f.location]
  /\ locationAddress' = [locationAddress EXCEPT ![k] = f.locationAddress]
  /\ nearbyResults' = [nearbyResults EXCEPT ![k] = f.nearbyResults]
  /\ scoredLandmarks' = [scoredLandmarks EXCEPT ![k] = f.scoredLandmarks]
  /\ response' = [response EXCEPT ![k] = f.response]
  /\ err' = [err EXCEPT ![k] = f.err]

\* request r takes the step out after the answers it just got
Commit(r, out, answers) ==
  /\ pc' = [pc EXCEPT ![r] = out.pc]
  /\ WriteFrame(Frame(r), out.frame)
  /\ calls' = [calls EXCEPT ![r] = [issued |-> @.issued \o out.issued,
                                    answers |-> @.answers \o answers]]
  /\ UNCHANGED mapsClient

ConcValidateRequest == Request(<<" ", "2", "0", "8">>, <<"p", "u", "r">>, <<>>, 0)
ConcAddressRequest == Request(<<>>, <<>>, RankAddress, 0)
ConcPinCodeRequest ==
  Request(<<" ", "2", "0", "8">>, <<"K", "A", "N", "P", "U", "R", " ">>, <<>>, 5000)

ConcInputs ==
  { [op |-> "validate", req |-> ConcValidateRequest],
    [op |-> "landmarks", req |-> ConcAddressRequest],
    [op |-> "landmarks", req |-> ConcPinCodeRequest] }

ConcGeocodeAnswers ==
  {Failed, Answer(<<>>), Answer(<<GeoKanpur>>), Answer(<<GeoDelhi>>)}
ConcLocationAnswers ==
  {Failed, Answer(<<>>), Answer(<<GeoDelhi>>), Answer(<<GeoKanpurNagar>>)}
ConcNearbyAnswers ==
  {Failed, Answer(<<>>), Answer(<<PlaceFort>>), Answer(<<PlaceCafe, PlaceMall>>)}

InitConc ==
  /\ mapsClient = TheClient
  /\ op = [r \in Requests |-> "none"]
  /\ req = [r \in Requests |-> ZeroRequest]
  /\ pc = [r \in Requests |-> "idle"]
  /\ calls = [r \in Requests |-> [issued |-> <<>>, answers |-> <<>>]]
  /\ results = [k \in Requests |-> NewFrame.results]
  /\ validation = [k \in Requests |-> NewFrame.validation]
  /\ geocodeResults = [k \in Requests |-> NewFrame.geocodeResults]
  /\ location = [k \in Requests |-> NewFrame.location]
  /\ locationAddress = [k \in Requests |-> NewFrame.locationAddress]
  /\ nearbyResults = [k \in Requests |-> NewFrame.nearbyResults]
  /\ scoredLandmarks = [k \in Requests |-> NewFrame.scoredLandmarks]
  /\ response = [k \in Requests |-> NewFrame.response]
  /\ err = [k \in Requests |-> NewFrame.err]

\* a handler decodes request r and enters its operation
ConcHandle(r) ==
  /\ pc[r] = "idle"
  /\ \E in \in ConcInputs :
       /\ op' = [op EXCEPT ![r] = in.op]
       /\ req' = [req EXCEPT ![r] = in.req]
       /\ Commit(r, Enter(in.op, in.req), <<>>)

\* the validator's Geocode call of request r returns
ConcValidateGeocodeReturn(r) ==
  /\ pc[r] = "validateGeocode"
  /\ \E a \in ConcGeocodeAnswers :
       Commit(r, OnValidateGeocode(op[r], req[r], ReadFrame(Frame(r)), a), <<a>>)
  /\ UNCHANGED <<op, req>>

\* the Geocode call GetNearbyLandmarks made for request r returns
ConcLocationGeocodeReturn(r) ==
  /\ pc[r] \in {"addressGeocode", "locationGeocode"}
  /\ \E a \in ConcLocationAnswers :
       Commit(r, OnLocationGeocode(req[r], ReadFrame(Frame(r)), pc[r], a), <<a>>)
  /\ UNCHANGED <<op, req>>

\* the NearbySearch call of request r returns
ConcNearbySearchReturn(r) ==
  /\ pc[r] = "nearbySearch"
  /\ \E a \in ConcNearbyAnswers :
       \E sorted \in SortedOutcomes(ReadFrame(Frame(r)), a) :
         Commit(r, OnNearbySearch(ReadFrame(Frame(r)), a, sorted), <<a>>)
  /\ UNCHANGED <<op, req>>

NextConc ==
  \E r \in Requests :
    \/ ConcHandle(r)
    \/ ConcValidateGeocodeReturn(r)
    \/ ConcLocationGeocodeReturn(r)
    \/ ConcNearbySearchReturn(r)

SpecConc == InitConc /\ [][NextConc]_vars

(***************************************************************************)
(* Vocabulary of the properties.                                           *)
(***************************************************************************)
Done == pc = "done"

\* the validator returned a response for a non-empty result list
Validated == validation # Nil /\ Len(results) > 0

\* the city one result carries, extracted from that result alone
ResultCity(result) == ScanResult(NothingFound, result).city
HasCity(result) == ResultCity(result) # <<>>

\* a is a substring of b, position by position
IsSubstring(a, b) ==
  \E i \in 1..(Len(b) + 1) :
    \A k \in 1..Len(a) : i + k - 1 <= Len(b) /\ b[i + k - 1] = a[k]

\* the bidirectional-substring rule on normalised strings
RuleMatches(claimed, geocoded) ==
  \/ IsSubstring(claimed, geocoded)
  \/ IsSubstring(geocoded, claimed)

Normalised(s) == ToLower(TrimSpace(s))

\* result i alone matches the claimed city of the request
ResultMatches(i) ==
  /\ HasCity(results[i])
  /\ RuleMatches(Normalised(req.City), ResultCity(results[i]))

\* the name of the first city component of a result, as the collaborator
\* spelled it
RECURSIVE FirstCityName(_)
FirstCityName(components) ==
  IF components = <<>> THEN <<>>
  ELSE IF \E k \in DOMAIN Head(components).Types :
            Head(components).Types[k] \in {"locality", "administrative_area_level_2"}
       THEN Head(components).LongName
       ELSE FirstCityName(Tail(components))

ToUpper(s) == [i \in 1..Len(s) |-> ToUpperChar(s[i])]

\* a claimed city in other letter case and other surrounding whitespace
ClaimedVariants(c) ==
  LET core == TrimSpace(c)
  IN UNION { { pre \o x \o post : x \in {core, ToUpper(core), ToLower(core)} } :
             pre \in {<<>>, <<" ">>, <<"\t", " ">>}, post \in {<<>>, <<" ">>} }

GeocodedVariants(g) == {g, ToUpper(g), ToLower(g)}

\* the match decision of the code for a claimed and a geocoded city
MatchDecision(claimed, geocoded) ==
  CityMatches(ToLower(geocoded), CleanCity(claimed))

(***************************************************************************)
(* C1: whenever some result of a non-empty result list, at any position,   *)
(* carries a city that matches the claimed city under the bidirectional-   *)
(* substring rule, ValidatePinCodeWithCity returns valid=true.             *)
(***************************************************************************)
C1_AnyMatchingResultIsValid ==
  Validated =>
    ((\E i \in DOMAIN results : ResultMatches(i)) => validation[1].Valid)

(***************************************************************************)
(* C2: when no result matches the claimed city, the validator returns      *)
(* valid=false and its suggestion list holds exactly the city of the last  *)
(* result that carried a city, and is empty only if no result carried one. *)
(***************************************************************************)
LastCity ==
  LET withCity == {i \in DOMAIN results : HasCity(results[i])}
  IN IF withCity = {} THEN <<>>
     ELSE <<ResultCity(results[CHOOSE i \in withCity : \A j \in withCity : j <= i])>>

C2_NoMatchSuggestsLastCity ==
  (Validated /\ \A i \in DOMAIN results : ~ResultMatches(i)) =>
    /\ ~validation[1].Valid
    /\ validation[1].Suggestions = LastCity

(***************************************************************************)
(* C3: for a result list of one result that carries a city, the validator  *)
(* returns valid=true exactly when the normalised claimed city is a        *)
(* substring of the normalised geocoded city or the other way round, and   *)
(* the match decision is the same for every other letter case and          *)
(* surrounding whitespace of the claimed city and every other letter case  *)
(* of the geocoded city.                                                   *)
(***************************************************************************)
C3_MatchIsNormalisedSubstring ==
  (validation # Nil /\ Len(results) = 1 /\ HasCity(results[1])) =>
    LET geocoded == FirstCityName(results[1].AddressComponents)
    IN /\ validation[1].Valid =
            RuleMatches(Normalised(req.City), ToLower(geocoded))
       /\ \A c \in ClaimedVariants(req.City), g \in GeocodedVariants(geocoded) :
            MatchDecision(c, g) = validation[1].Valid

\* claimed "KANPUR " was matched with geocoded "Kanpur Nagar"
C3_Witness ==
  /\ Done /\ validation # Nil /\ results = <<GeoKanpurNagar>>
  /\ req.City = <<"K", "A", "N", "P", "U", "R", " ">>
  /\ validation[1].Valid

(***************************************************************************)
(* Vocabulary of the ranking properties.                                   *)
(***************************************************************************)
Succeeded == Done /\ response # Nil /\ response[1].Success

\* metres between the resolved location and a place, on their meridian
MetresAway(place) ==
  LET d == place.Location.Lat - location.Lat IN IF d < 0 THEN 0 - d ELSE d

\* the positions of nearbyResults the exclusion rule lets through
Survivors ==
  {i \in DOMAIN nearbyResults :
     nearbyResults[i].UserRatingsTotal > 0 /\ MetresAway(nearbyResults[i]) >= 10}

Occurrences(s, x) == Cardinality({k \in DOMAIN s : s[k] = x})

\* the survivors that became the landmark lm
SurvivorsOf(lm) ==
  Cardinality({i \in Survivors : Landmark(location, nearbyResults[i]) = lm})

Smaller(m, n) == IF m < n THEN m ELSE n

(***************************************************************************)
(* C4: GetNearbyLandmarks returns exactly min(5, number of survivors)      *)
(* landmarks, each of them a survivor, in non-increasing score order, and  *)
(* no survivor left out has a score strictly greater than a landmark of    *)
(* the list.                                                               *)
(***************************************************************************)
C4_TopFiveByScore ==
  Succeeded =>
    LET list == response[1].Landmarks
    IN /\ Len(list) = Smaller(5, Cardinality(Survivors))
       /\ \A k \in DOMAIN list : Occurrences(list, list[k]) <= SurvivorsOf(list[k])
       /\ \A j, k \in DOMAIN list :
            j < k => ~Greater(list[k].PopScore, list[j].PopScore)
       /\ \A i \in Survivors :
            LET lm == Landmark(location, nearbyResults[i])
            IN (\E k \in DOMAIN list : Greater(lm.PopScore, list[k].PopScore))
                 => Occurrences(list, lm) = SurvivorsOf(lm)

\* six survivors of two different scores, five returned, one left out
C4_Witness ==
  /\ Succeeded
  /\ Cardinality(Survivors) = 6
  /\ Len(response[1].Landmarks) = 5
  /\ \E i, j \in Survivors :
       Greater(Landmark(location, nearbyResults[i]).PopScore,
               Landmark(location, nearbyResults[j]).PopScore)
  /\ \E i \in Survivors :
       Occurrences(response[1].Landmarks, Landmark(location, nearbyResults[i]))
         < SurvivorsOf(Landmark(location, nearbyResults[i]))

(***************************************************************************)
(* C5: no returned landmark has review count 0 or lies less than 10 metres *)
(* from the resolved location, and the scored survivors are exactly the    *)
(* candidates with review count > 0 and distance >= 10 metres.             *)
(***************************************************************************)
C5_ExclusionRule ==
  Succeeded =>
    /\ \A k \in DOMAIN response[1].Landmarks :
         /\ response[1].Landmarks[k].UserRatings # 0
         /\ response[1].Landmarks[k].Distance >= 10
         /\ \E i \in DOMAIN nearbyResults :
              /\ nearbyResults[i].Name = response[1].Landmarks[k].Name
              /\ nearbyResults[i].UserRatingsTotal # 0
              /\ MetresAway(nearbyResults[i]) >= 10
    /\ Len(scoredLandmarks) = Cardinality(Survivors)
    /\ \A i \in Survivors :
         Occurrences(scoredLandmarks, ScoredLandmark(location, nearbyResults[i]))
           = SurvivorsOf(Landmark(location, nearbyResults[i]))

\* a place without reviews, a place 9 m away and a place exactly 10 m away
\* were candidates; only the last was scored and returned
C5_Witness ==
  /\ Succeeded
  /\ \E i \in DOMAIN nearbyResults : nearbyResults[i] = PlaceNew
  /\ \E i \in DOMAIN nearbyResults : nearbyResults[i] = PlaceHere
  /\ \E i \in Survivors : MetresAway(nearbyResults[i]) = 10
  /\ Len(response[1].Landmarks) = Cardinality(Survivors)

(***************************************************************************)
(* Vocabulary of the orchestration properties.                             *)
(***************************************************************************)
Started == pc # "idle"

GeocodeCalls == {i \in DOMAIN calls : calls[i].api = "Geocode"}
NearbyCalls == {i \in DOMAIN calls : calls[i].api = "NearbySearch"}

\* the Geocode call only the validator makes: it carries the postal code
ValidatorCalls == {i \in GeocodeCalls : calls[i].PostalCode # <<>>}

\* GetNearbyLandmarks was entered without an address, with a postal code
\* and a city
PostalCodeMode ==
  /\ op = "landmarks" /\ Started
  /\ req.Address = <<>> /\ req.PinCode # <<>> /\ req.City # <<>>

\* ValidatePinCodeWithCity was entered
ValidatorEntered == (op = "validate" /\ Started) \/ PostalCodeMode

\* a soft failure: a response object with success=false and no error
SoftFailed == Done /\ response # Nil /\ ~response[1].Success /\ err = ""

(***************************************************************************)
(* C6: when a collaborator call fails, the operation is over with an       *)
(* error and without a response object (GetNearbyLandmarks: no landmarks,  *)
(* no location; ValidatePinCodeWithCity: no validation response), and no   *)
(* call follows the failed one.                                            *)
(***************************************************************************)
C6_FailedCallIsHardError ==
  \A i \in DOMAIN calls :
    calls[i].outcome = "error" =>
      /\ Done
      /\ err # ""
      /\ response = Nil
      /\ op = "validate" => validation = Nil
      /\ i = Len(calls)

\* the nearby search failed after the validator and the geocoder answered
C6_Witness ==
  /\ Done /\ op = "landmarks" /\ Len(calls) = 3
  /\ calls[3].api = "NearbySearch" /\ calls[3].outcome = "error"
  /\ err = "nearby search failed"

(***************************************************************************)
(* C7: in postal-code mode the first call, if there is any, is the         *)
(* validator's, and once the validator has answered valid=false the        *)
(* operation is over with success=false and the validator's message, and   *)
(* neither the second geocode call nor the nearby search was made.         *)
(***************************************************************************)
C7_InvalidPinShortCircuits ==
  PostalCodeMode =>
    /\ calls # <<>> => 1 \in ValidatorCalls
    /\ (validation = Nil /\ err = "") => pc = "validateGeocode"
    /\ (validation # Nil /\ ~validation[1].Valid) =>
         /\ SoftFailed
         /\ response[1].Message = validation[1].Message
         /\ response[1].Landmarks = <<>>
         /\ Cardinality(GeocodeCalls) <= 1
         /\ NearbyCalls = {}

\* the postal code was geocoded to another city than the claimed one
C7_Witness ==
  /\ PostalCodeMode /\ Done
  /\ validation # Nil /\ ~validation[1].Valid
  /\ validation[1].Suggestions # <<>>
  /\ Len(calls) = 1

(***************************************************************************)
(* C8: with a non-empty address GetNearbyLandmarks never runs the          *)
(* validator, makes exactly one geocode call, with the trimmed address,    *)
(* and resolves the location to the coordinate of the first result.        *)
(***************************************************************************)
C8_AddressTakesPrecedence ==
  (op = "landmarks" /\ Started /\ req.Address # <<>>) =>
    /\ validation = Nil
    /\ ValidatorCalls = {}
    /\ GeocodeCalls = {1}
    /\ calls[1].Address = TrimSpace(req.Address)
    /\ (pc = "nearbySearch" \/ Succeeded) =>
         /\ geocodeResults # <<>>
         /\ location = geocodeResults[1].Location
         /\ calls[Len(calls)].Location = geocodeResults[1].Location
    /\ Succeeded => response[1].Location = geocodeResults[1].Location

\* address, postal code and city were all supplied; the geocoder answered
\* two results with different coordinates
C8_Witness ==
  /\ Succeeded /\ op = "landmarks"
  /\ TrimSpace(req.Address) # <<>>
  /\ TrimSpace(req.PinCode) # <<>> /\ TrimSpace(req.City) # <<>>
  /\ Len(geocodeResults) = 2
  /\ geocodeResults[1].Location # geocodeResults[2].Location

(***************************************************************************)
(* C9: a landmarks request whose address is empty after trimming and whose *)
(* postal code or city is empty after trimming ends in a soft failure and  *)
(* makes no collaborator call.                                             *)
(***************************************************************************)
C9_NoUsableInputIsSoftFailure ==
  ( /\ op = "landmarks" /\ Started
    /\ TrimSpace(req.Address) = <<>>
    /\ (TrimSpace(req.PinCode) = <<>> \/ TrimSpace(req.City) = <<>>) ) =>
    /\ SoftFailed
    /\ calls = <<>>

(***************************************************************************)
(* C10: ValidatePinCodeWithCity, entered with a postal code or a city that *)
(* is empty after trimming, returns valid=false and makes no call.         *)
(***************************************************************************)
C10_EmptyInputFailsFast ==
  ( /\ ValidatorEntered
    /\ (TrimSpace(req.PinCode) = <<>> \/ TrimSpace(req.City) = <<>>) ) =>
    /\ Done
    /\ validation # Nil /\ ~validation[1].Valid
    /\ err = ""
    /\ calls = <<>>

\* a postal code was given with a city of whitespace only
C10_Witness ==
  /\ op = "validate" /\ Done
  /\ TrimSpace(req.PinCode) # <<>>
  /\ req.City # <<>> /\ TrimSpace(req.City) = <<>>
  /\ validation # Nil /\ ~validation[1].Valid

WholeMetres(radius) ==
  CHOOSE m \in 0..radius : m * 10 <= radius /\ radius < (m + 1) * 10

RECURSIVE FirstTagged(_, _)
FirstTagged(components, tag) ==
  IF components = <<>> THEN <<>>
  ELSE IF \E k \in DOMAIN Head(components).Types : Head(components).Types[k] = tag
       THEN Head(components).LongName
       ELSE FirstTagged(Tail(components), tag)

C12_FirstStateAndCountryWin ==
  (validation # Nil /\ Len(results) = 1 /\ validation[1].Details # Nil) =>
    /\ validation[1].Details[1].State =
         FirstTagged(results[1].AddressComponents, "administrative_area_level_1")
    /\ validation[1].Details[1].Country =
         FirstTagged(results[1].AddressComponents, "country")

(***************************************************************************)
(* C13: when GetNearbyLandmarks succeeds with an empty list its message is *)
(* the one that advises a larger radius; with a non-empty list the message *)
(* reports the resolved address and a count equal to the length of the     *)
(* list.                                                                   *)
(***************************************************************************)
C13_MessageTellsTheCount ==
  Succeeded =>
    IF response[1].Landmarks = <<>>
    THEN response[1].Message =
           Msg("No landmarks found in the specified area. Try increasing the search radius.",
               <<>>, 0)
    ELSE /\ response[1].Message.id = "Found %d landmarks near %s"
         /\ response[1].Message.n = Len(response[1].Landmarks)
         /\ response[1].Message.n > 0
         /\ response[1].Message.args = <<geocodeResults[1].FormattedAddress>>

\* the nearby search found places, all of them excluded
C13_Witness ==
  /\ Succeeded
  /\ nearbyResults # <<>> /\ Survivors = {}
  /\ response[1].Landmarks = <<>>
  /\ response[1].Message.n = 0

(***************************************************************************)
(* C15: ValidatePinCodeWithCity returns valid=true only with a non-empty   *)
(* city in the details.                                                    *)
(***************************************************************************)
C15_ValidHasCity ==
  (validation # Nil /\ validation[1].Valid) =>
    /\ validation[1].Details # Nil
    /\ validation[1].Details[1].City # <<>>

(***************************************************************************)
(* Vocabulary of the concurrency property: the run of one operation alone, *)
(* on locals of its own, with given answers to its calls in their order.   *)
(***************************************************************************)
RECURSIVE AloneFrom(_, _, _, _, _)
AloneFrom(o, q, at, f, answers) ==
  IF at = "done" \/ answers = <<>> THEN {[pc |-> at, frame |-> f]}
  ELSE IF at = "validateGeocode"
  THEN LET out == OnValidateGeocode(o, q, f, Head(answers))
       IN AloneFrom(o, q, out.pc, out.frame, Tail(answers))
  ELSE IF at \in {"addressGeocode", "locationGeocode"}
  THEN LET out == OnLocationGeocode(q, f, at, Head(answers))
       IN AloneFrom(o, q, out.pc, out.frame, Tail(answers))
  ELSE UNION { AloneFrom(o, q, "done",
                         OnNearbySearch(f, Head(answers), sorted).frame,
                         Tail(answers)) :
               sorted \in SortedOutcomes(f, Head(answers)) }

Alone(o, q, answers) ==
  AloneFrom(o, q, Enter(o, q).pc, Enter(o, q).frame, answers)

\* what the handler of request r gets back, or would get back from f
Returned3(f) == <<f.validation, f.response, f.err>>

(***************************************************************************)
(* C14: however the steps of concurrently served requests interleave, the  *)
(* position and the locals of every request, and so what it returns when   *)
(* it is done, are those of a run of its operation alone with the answers  *)
(* its own calls got; the collaborator handle of the service stays the one *)
(* it was constructed with.                                                *)
(***************************************************************************)
C14_RequestsDoNotInterfere ==
  /\ mapsClient = TheClient
  /\ \A r \in Requests :
       pc[r] # "idle" =>
         /\ [pc |-> pc[r], frame |-> ReadFrame(Frame(r))]
              \in Alone(op[r], req[r], calls[r].answers)
         /\ pc[r] = "done" =>
              \E run \in Alone(op[r], req[r], calls[r].answers) :
                /\ run.pc = "done"
                /\ Returned3(run.frame) = Returned3(ReadFrame(Frame(r)))

\* two landmarks requests, one by address and one by postal code, were
\* resolved to different coordinates and both returned landmarks, while
\* every call of theirs could interleave with the other's
C14_Witness ==
  \E r1, r2 \in Requests :
    /\ pc[r1] = "done" /\ pc[r2] = "done"
    /\ req[r1] = ConcAddressRequest /\ req[r2] = ConcPinCodeRequest
    /\ response[r1] # Nil /\ response[r2] # Nil
    /\ response[r1][1].Success /\ response[r2][1].Success
    /\ response[r1][1].Location # response[r2][1].Location
    /\ response[r1][1].Landmarks # <<>> /\ response[r2][1].Landmarks # <<>>

(***************************************************************************)
(* The steps of one request in Spec are the steps of the functions the     *)
(* concurrent requests take.                                               *)
(***************************************************************************)
TheFrame ==
  [results |-> results, validation |-> validation,
   geocodeResults |-> geocodeResults, location |-> location,
   locationAddress |-> locationAddress, nearbyResults |-> nearbyResults,
   scoredLandmarks |-> scoredLandmarks, response |-> response, err |-> err]

\* the step out was taken
Took(out) ==
  /\ pc' = out.pc
  /\ TheFrame' = out.frame
  /\ calls' = (IF calls = <<>> THEN calls
               ELSE Returned(calls, calls'[Len(calls)].outcome)) \o out.issued

StepsAgree ==
  [][ /\ pc = "idle" => Took(Enter(op', req'))
      /\ pc = "validateGeocode" =>
           \E a \in {Failed} \cup {Answer(rs) : rs \in GeocodeAnswers} :
             Took(OnValidateGeocode(op, req, TheFrame, a))
      /\ pc \in {"addressGeocode", "locationGeocode"} =>
           \E a \in {Failed} \cup {Answer(rs) : rs \in LocationAnswers} :
             Took(OnLocationGeocode(req, TheFrame, pc, a))
      /\ pc = "nearbySearch" =>
           \E a \in {Failed} \cup {Answer(ps) : ps \in NearbyAnswers} :
             \E sorted \in SortedOutcomes(TheFrame, a) :
               Took(OnNearbySearch(TheFrame, a, sorted)) ]_vars

====
